---- MODULE Spec2Model ----
(***************************************************************************)
(* Model of hyloclo (src/src/lib.rs): the 64-bit stamp layout, the packing *)
(* function stamp_time, and the TimeSource / MonotonicClock / AtomicClock  *)
(* call surface.                                                           *)
(*                                                                         *)
(* A u64 is a tuple of four 16-bit limbs, least significant first, so that *)
(* every intermediate of the 64-bit arithmetic stays inside TLC's integer  *)
(* range while the width (wrap-around at 2^64) is kept exactly.            *)
(***************************************************************************)
EXTENDS Integers, Sequences, FiniteSets, TLC

VARIABLES overflow_checks, ret, call, clock

vars == <<overflow_checks, ret, call, clock>>

(***************************************************************************)
(* Bounds of the model.                                                    *)
(***************************************************************************)
\* small seconds / nanoseconds handed to Inst::new are 0..MaxSmall
MaxSmall == 2
\* the simulated OS clock reports tv_sec, tv_nsec in -1..MaxTv
MaxTv == 1
\* number of successive clock_gettime outcomes the environment fixes per run
ScriptLen == 2

(***************************************************************************)
(* u64 arithmetic on limbs.                                                *)
(***************************************************************************)
Base == 65536

Limbs == 1..4

FromNat(n) == <<n % Base, (n \div Base) % Base, 0, 0>>

Zero64 == <<0, 0, 0, 0>>

One64 == <<1, 0, 0, 0>>

\* x << n for 0 <= n < 64; bits shifted past bit 63 are dropped (Rust `<<`)
Shl(x, n) ==
  LET w == n \div 16
      k == n % 16
      y == [i \in Limbs |-> IF i - w >= 1 THEN x[i - w] ELSE 0]
  IN [i \in Limbs |->
        ((y[i] * (2 ^ k)) % Base)
        + (IF i > 1 THEN y[i - 1] \div (2 ^ (16 - k)) ELSE 0)]

\* x + y modulo 2^64, with the carry out of bit 63
Add(x, y) ==
  LET s1 == x[1] + y[1]
      s2 == x[2] + y[2] + (s1 \div Base)
      s3 == x[3] + y[3] + (s2 \div Base)
      s4 == x[4] + y[4] + (s3 \div Base)
  IN [v |-> <<s1 % Base, s2 % Base, s3 % Base, s4 % Base>>,
      overflow |-> s4 >= Base]

\* x - y modulo 2^64, with the borrow out of bit 63
Sub(x, y) ==
  LET d1 == x[1] - y[1]
      b1 == IF d1 < 0 THEN 1 ELSE 0
      d2 == x[2] - y[2] - b1
      b2 == IF d2 < 0 THEN 1 ELSE 0
      d3 == x[3] - y[3] - b2
      b3 == IF d3 < 0 THEN 1 ELSE 0
      d4 == x[4] - y[4] - b3
  IN [v |-> <<d1 % Base, d2 % Base, d3 % Base, d4 % Base>>,
      overflow |-> d4 < 0]

RECURSIVE AndBits(_, _, _)
AndBits(a, b, k) ==
  IF k = 0 THEN 0
  ELSE ((a % 2) * (b % 2)) + 2 * AndBits(a \div 2, b \div 2, k - 1)

RECURSIVE OrBits(_, _, _)
OrBits(a, b, k) ==
  IF k = 0 THEN 0
  ELSE ((a % 2) + (b % 2) - ((a % 2) * (b % 2)))
       + 2 * OrBits(a \div 2, b \div 2, k - 1)

BitAnd(x, y) == [i \in Limbs |-> AndBits(x[i], y[i], 16)]

BitOr(x, y) == [i \in Limbs |-> OrBits(x[i], y[i], 16)]

\* unsigned x < y
Lt(x, y) ==
  \E i \in Limbs : x[i] < y[i] /\ \A j \in Limbs : j > i => x[j] = y[j]

(***************************************************************************)
(* Layout constants.                                                       *)
(***************************************************************************)
CURRENT_GENERATION == 0

GENERATION_BITS == 6

TIME_BITS == 42

COUNTER_BITS == 16

TIME_SHIFT_BITS == 10

SEC_IN_NANOS == <<1000000000 % Base, 1000000000 \div Base, 0, 0>>

TIME_MASK == Shl(Sub(Shl(One64, TIME_BITS), One64).v, COUNTER_BITS)

GENERATION_IN_POSITION ==
  Shl(FromNat(CURRENT_GENERATION), TIME_BITS + COUNTER_BITS)

(***************************************************************************)
(* Outcomes of a call.                                                     *)
(***************************************************************************)
Panic == [tag |-> "Panic"]

Returned(v) == [tag |-> "Value", val |-> v]

Ok(v) == [tag |-> "Ok", val |-> v]

Err(e) == [tag |-> "Err", err |-> e]

NoCall == [tag |-> "None"]

(***************************************************************************)
(* stamp_time.  `+` and `-` panic on overflow when the crate is built with *)
(* overflow checks (the dev profile) and wrap otherwise (the release       *)
(* profile); `<<` by a constant smaller than 64 never panics.              *)
(***************************************************************************)
\* mutant: the time field is not masked
stamp_time_nomask(secs, nanos) ==
  LET shifted_secs == Shl(secs, TIME_SHIFT_BITS)
      shifted_nanos == Shl(nanos, TIME_SHIFT_BITS)
      diff == Sub(shifted_nanos, SEC_IN_NANOS)
      sum == Add(shifted_secs, diff.v)
      in_position == Shl(sum.v, COUNTER_BITS)
  IN IF overflow_checks /\ (diff.overflow \/ sum.overflow)
     THEN Panic
     ELSE Returned(BitOr(GENERATION_IN_POSITION, in_position))

\* mutant: seconds and nanoseconds are shifted by COUNTER_BITS
stamp_time_wrongshift(secs, nanos) ==
  LET shifted_secs == Shl(secs, COUNTER_BITS)
      shifted_nanos == Shl(nanos, COUNTER_BITS)
      diff == Sub(shifted_nanos, SEC_IN_NANOS)
      sum == Add(shifted_secs, diff.v)
      in_position == Shl(sum.v, COUNTER_BITS)
  IN IF overflow_checks /\ (diff.overflow \/ sum.overflow)
     THEN Panic
     ELSE Returned(BitOr(GENERATION_IN_POSITION,
                         BitAnd(in_position, TIME_MASK)))

\* mutant: the counter field is filled with the number of stamps issued
stamp_time_counter(secs, nanos) ==
  LET shifted_secs == Shl(secs, TIME_SHIFT_BITS)
      shifted_nanos == Shl(nanos, TIME_SHIFT_BITS)
      diff == Sub(shifted_nanos, SEC_IN_NANOS)
      sum == Add(shifted_secs, diff.v)
      in_position == Shl(sum.v, COUNTER_BITS)
      issued == Cardinality({c \in DOMAIN ret : ret[c].op = "Inst::stamp"})
  IN IF overflow_checks /\ (diff.overflow \/ sum.overflow)
     THEN Panic
     ELSE Returned(BitOr(FromNat(issued),
                         BitOr(GENERATION_IN_POSITION,
                               BitAnd(in_position, TIME_MASK))))

stamp_time(secs, nanos) ==
  LET shifted_secs == Shl(secs, TIME_SHIFT_BITS)
      shifted_nanos == Shl(nanos, TIME_SHIFT_BITS)
      diff == Sub(shifted_nanos, SEC_IN_NANOS)
      sum == Add(shifted_secs, diff.v)
      in_position == Shl(sum.v, COUNTER_BITS)
  IN IF overflow_checks /\ (diff.overflow \/ sum.overflow)
     THEN Panic
     ELSE Returned(BitOr(GENERATION_IN_POSITION,
                         BitAnd(in_position, TIME_MASK)))

Inst_new(secs, nanos) == [secs |-> secs, nanos |-> nanos]

Inst_zero == Inst_new(Zero64, Zero64)

Inst_stamp(self) == stamp_time(self.secs, self.nanos)

(***************************************************************************)
(* The OS clock boundary: clock_gettime(CLOCK_BOOTTIME) either fails with  *)
(* an errno or yields a TimeSpec of two signed components.  A script is    *)
(* the sequence of outcomes the OS gives to successive reads.              *)
(***************************************************************************)
OsErr(e) == [tag |-> "Errno", errno |-> e]

TimeSpec(s, n) == [tag |-> "TimeSpec", tv_sec |-> s, tv_nsec |-> n]

\* EPERM, EINVAL
Errnos == {1, 22}

TvSecs == (-1)..MaxTv

TvNsecs == ((-1)..MaxTv) \cup {999999999}

ClockOutcomes ==
  {OsErr(e) : e \in Errnos}
  \cup {TimeSpec(s, n) : s \in TvSecs, n \in TvNsecs}

Scripts == [1..ScriptLen -> ClockOutcomes]

clock_gettime(script) == [val |-> Head(script), rest |-> Tail(script)]

NixError(e) == [kind |-> "NixError", errno |-> e]

NegativeTimeSpec(tspec) == [kind |-> "NegativeTimeSpec", tspec |-> tspec]

\* `x as u64` of an i64: the value itself, or its two's complement
as_u64(n) == IF n >= 0 THEN FromNat(n) ELSE Sub(Zero64, FromNat(-n)).v

\* mutant: a failure yields the default Inst instead of a panic
unwrap_or_zero(r) ==
  IF r.tag = "Ok" THEN Returned(r.val) ELSE Returned(Inst_zero)

\* Result::unwrap: the Ok value, or a panic
unwrap(r) == IF r.tag = "Ok" THEN Returned(r.val) ELSE Panic

\* mutant: only the seconds component is checked for a negative value
MonotonicClock_tick_secs_only(script) ==
  LET got == clock_gettime(script)
      tspec == got.val
  IN IF tspec.tag = "Errno"
     THEN [res |-> Err(NixError(tspec.errno)), rest |-> got.rest]
     ELSE IF tspec.tv_sec < 0
          THEN [res |-> Err(NegativeTimeSpec(tspec)), rest |-> got.rest]
          ELSE [res |-> Ok(Inst_new(as_u64(tspec.tv_sec),
                                    as_u64(tspec.tv_nsec))),
                rest |-> got.rest]

\* mutant: a failed read is retried once when the OS has another outcome
MonotonicClock_tick_retry(script) ==
  LET first == clock_gettime(script)
      got == IF first.val.tag = "Errno" /\ first.rest # <<>>
             THEN clock_gettime(first.rest) ELSE first
      tspec == got.val
  IN IF tspec.tag = "Errno"
     THEN [res |-> Err(NixError(tspec.errno)), rest |-> got.rest]
     ELSE IF tspec.tv_sec < 0 \/ tspec.tv_nsec < 0
          THEN [res |-> Err(NegativeTimeSpec(tspec)), rest |-> got.rest]
          ELSE [res |-> Ok(Inst_new(as_u64(tspec.tv_sec),
                                    as_u64(tspec.tv_nsec))),
                rest |-> got.rest]

\* <MonotonicClock as TimeSource>::tick
MonotonicClock_tick(script) ==
  LET got == clock_gettime(script)
      tspec == got.val
  IN IF tspec.tag = "Errno"
     THEN [res |-> Err(NixError(tspec.errno)), rest |-> got.rest]
     ELSE IF tspec.tv_sec < 0 \/ tspec.tv_nsec < 0
          THEN [res |-> Err(NegativeTimeSpec(tspec)), rest |-> got.rest]
          ELSE [res |-> Ok(Inst_new(as_u64(tspec.tv_sec),
                                    as_u64(tspec.tv_nsec))),
                rest |-> got.rest]

\* the time sources: the concrete MonotonicClock, and any other
\* implementation of the trait, whose tick yields the result g
Sources == {"MonotonicClock", "Generic"}

GenericTicks ==
  {Ok(Inst_zero), Ok(Inst_new(FromNat(1), FromNat(5))),
   Err(NixError(22)), Err(NegativeTimeSpec(TimeSpec(-1, 0)))}

\* T::tick
TimeSource_tick(T, script, g) ==
  IF T = "MonotonicClock" THEN MonotonicClock_tick(script)
  ELSE [res |-> g, rest |-> script]

\* T::must_tick (provided method of the trait)
TimeSource_must_tick(T, script, g) ==
  LET t == TimeSource_tick(T, script, g)
  IN [res |-> unwrap(t.res), rest |-> t.rest]

MonotonicClock_try_new(script) ==
  LET t == MonotonicClock_tick(script)
  IN IF t.res.tag = "Ok"
     THEN [res |-> Ok([init |-> t.res.val]), rest |-> t.rest]
     ELSE [res |-> Err(t.res.err), rest |-> t.rest]

MonotonicClock_new(script) ==
  LET t == MonotonicClock_try_new(script)
  IN [res |-> unwrap(t.res), rest |-> t.rest]

AtomicClock_try_new(script) ==
  LET m == MonotonicClock_try_new(script)
  IN IF m.res.tag = "Ok"
     THEN [res |-> Ok([source |-> m.res.val]), rest |-> m.rest]
     ELSE [res |-> Err(m.res.err), rest |-> m.rest]

AtomicClock_new(script) ==
  LET t == AtomicClock_try_new(script)
  IN [res |-> unwrap(t.res), rest |-> t.rest]

AtomicClock_with_source(source) == [source |-> source]

AtomicClock_try_now(T, script, g) == TimeSource_tick(T, script, g)

AtomicClock_now(T, script, g) ==
  LET t == AtomicClock_try_now(T, script, g)
  IN [res |-> unwrap(t.res), rest |-> t.rest]

(***************************************************************************)
(* Inputs of the packing specification.                                    *)
(***************************************************************************)
Callers == {1, 2}

Pow2_32 == <<0, 0, 1, 0>>

Pow2_54 == <<0, 0, 0, 64>>

SecsInputs ==
  {FromNat(n) : n \in 0..MaxSmall}
  \cup {FromNat(976563), FromNat(1700000000),
        Add(Pow2_32, One64).v, Sub(Pow2_54, One64).v}

NanosInputs ==
  {FromNat(n) : n \in 0..(MaxSmall - 1)}
  \cup {FromNat(4), FromNat(5), FromNat(976563), FromNat(1000000),
        FromNat(500000000), FromNat(999999999)}

(***************************************************************************)
(* Packing specification: two callers obtain Insts (from Inst::new,        *)
(* Inst::zero or a tick of the monotonic clock) and stamp them.            *)
(***************************************************************************)
Init ==
  /\ overflow_checks \in BOOLEAN
  /\ ret = [c \in Callers |->
              [op |-> "none", src |-> "none", arg |-> Inst_zero, res |-> NoCall]]
  /\ call = [op |-> "none"]
  /\ clock = <<>>

\* Inst::new(secs, nanos)
InstNew(c) ==
  \E secs \in SecsInputs, nanos \in NanosInputs :
    /\ ret' = [ret EXCEPT ![c] = [op |-> "Inst::new",
                                  src |-> "none",
                                  arg |-> Inst_zero,
                                  res |-> Returned(Inst_new(secs, nanos))]]
    /\ UNCHANGED <<overflow_checks, call, clock>>

\* Inst::zero()
InstZero(c) ==
  /\ ret' = [ret EXCEPT ![c] = [op |-> "Inst::zero",
                                src |-> "none",
                                arg |-> Inst_zero,
                                res |-> Returned(Inst_zero)]]
  /\ UNCHANGED <<overflow_checks, call, clock>>

\* MonotonicClock::tick(): one read of the OS clock
Tick(c) ==
  \E r \in ClockOutcomes :
    /\ ret' = [ret EXCEPT ![c] = [op |-> "tick",
                                  src |-> "none",
                                  arg |-> Inst_zero,
                                  res |-> MonotonicClock_tick(<<r>>).res]]
    /\ UNCHANGED <<overflow_checks, call, clock>>

HoldsInst(c) ==
  /\ ret[c].op \in {"Inst::new", "Inst::zero", "tick"}
  /\ ret[c].res.tag \in {"Value", "Ok"}

\* Inst::stamp(self): consumes the Inst the caller holds
InstStamp(c) ==
  /\ HoldsInst(c)
  /\ ret' = [ret EXCEPT ![c] = [op |-> "Inst::stamp",
                                src |-> ret[c].op,
                                arg |-> ret[c].res.val,
                                res |-> Inst_stamp(ret[c].res.val)]]
  /\ UNCHANGED <<overflow_checks, call, clock>>

Next ==
  \E c \in Callers : InstNew(c) \/ InstZero(c) \/ Tick(c) \/ InstStamp(c)

Spec == Init /\ [][Next]_vars

(***************************************************************************)
(* Clock specification: the OS clock is a script of outcomes fixed at the  *)
(* start; one caller uses the clock API, each read consuming the head of   *)
(* the script.  `call` records the last call: the operation, the time      *)
(* source T, the outcomes its reads consumed, the result g of a generic    *)
(* source's tick, and the outcome of the call.                             *)
(***************************************************************************)
NoTick == [tag |-> "None"]

Record(op, T, g, out) ==
  [op |-> op, T |-> T, g |-> g, res |-> out.res,
   seen |-> SubSeq(clock, 1, Len(clock) - Len(out.rest))]

Readable(T) == T = "MonotonicClock" => clock # <<>>

TicksOf(T) == IF T = "MonotonicClock" THEN {NoTick} ELSE GenericTicks

ClockInit ==
  /\ overflow_checks \in BOOLEAN
  /\ ret = [c \in Callers |->
              [op |-> "none", src |-> "none", arg |-> Inst_zero, res |-> NoCall]]
  /\ call = [op |-> "none"]
  /\ clock \in Scripts

Calls(op, T, g, out) ==
  /\ call' = Record(op, T, g, out)
  /\ clock' = out.rest
  /\ UNCHANGED <<overflow_checks, ret>>

ClockTick ==
  /\ Readable("MonotonicClock")
  /\ Calls("tick", "MonotonicClock", NoTick, MonotonicClock_tick(clock))

MustTick ==
  \E T \in Sources : \E g \in TicksOf(T) :
    /\ Readable(T)
    /\ Calls("must_tick", T, g, TimeSource_must_tick(T, clock, g))

MonotonicTryNew ==
  /\ Readable("MonotonicClock")
  /\ Calls("MonotonicClock::try_new", "MonotonicClock", NoTick,
           MonotonicClock_try_new(clock))

MonotonicNew ==
  /\ Readable("MonotonicClock")
  /\ Calls("MonotonicClock::new", "MonotonicClock", NoTick,
           MonotonicClock_new(clock))

AtomicTryNew ==
  /\ Readable("MonotonicClock")
  /\ Calls("AtomicClock::try_new", "MonotonicClock", NoTick,
           AtomicClock_try_new(clock))

AtomicNew ==
  /\ Readable("MonotonicClock")
  /\ Calls("AtomicClock::new", "MonotonicClock", NoTick,
           AtomicClock_new(clock))

\* AtomicClock::with_source wraps a MonotonicClock that was constructed
WithSource ==
  /\ call.op \in {"MonotonicClock::try_new", "MonotonicClock::new"}
  /\ call.res.tag \in {"Ok", "Value"}
  /\ Calls("with_source", "MonotonicClock", NoTick,
           [res |-> Returned(AtomicClock_with_source(call.res.val)),
            rest |-> clock])

TryNow ==
  \E T \in Sources : \E g \in TicksOf(T) :
    /\ Readable(T)
    /\ Calls("try_now", T, g, AtomicClock_try_now(T, clock, g))

Now ==
  \E T \in Sources : \E g \in TicksOf(T) :
    /\ Readable(T)
    /\ Calls("now", T, g, AtomicClock_now(T, clock, g))

ClockNext ==
  \/ ClockTick
  \/ MustTick
  \/ MonotonicTryNew
  \/ MonotonicNew
  \/ AtomicTryNew
  \/ AtomicNew
  \/ WithSource
  \/ TryNow
  \/ Now

ClockSpec == ClockInit /\ [][ClockNext]_vars

(***************************************************************************)
(* Properties of the packing specification.                                *)
(***************************************************************************)
Stamped(c) == ret[c].op = "Inst::stamp"

Pow2_42 == <<0, 0, 1024, 0>>

TickUnit == Shl(One64, TIME_SHIFT_BITS)

\* the 42-bit time field of a stamp: (v >> 16) & (2^42 - 1)
TimeField(v) == <<v[2], v[3], v[4] % 1024, 0>>

NanosInSecond(i) == Lt(i.nanos, SEC_IN_NANOS)

\* a is before b in (seconds, nanoseconds) order by at least one tick unit
BeforeByTick(a, b) ==
  \/ /\ a.secs = b.secs
     /\ ~Lt(b.nanos, Add(a.nanos, TickUnit).v)
  \/ /\ Add(a.secs, One64).v = b.secs
     /\ ~Lt(Add(b.nanos, SEC_IN_NANOS).v, Add(a.nanos, TickUnit).v)
  \/ Lt(Add(a.secs, One64).v, b.secs)

\* the combined value as a mathematical integer fits the time field and no
\* step of its computation leaves the range of a u64
InTimeRange(i) ==
  /\ Lt(i.secs, Pow2_32)
  /\ ~Lt(Shl(i.nanos, TIME_SHIFT_BITS), SEC_IN_NANOS)
  /\ Lt(Add(Shl(i.secs, TIME_SHIFT_BITS),
            Sub(Shl(i.nanos, TIME_SHIFT_BITS), SEC_IN_NANOS).v).v, Pow2_42)

\* C1: of two stamped instants with nanoseconds below one second, both inside
\* the representable time range, the one that is earlier by at least 2^10
\* nanoseconds has the smaller stamp.
C1_Monotonic ==
  \A a, b \in Callers :
    (/\ Stamped(a) /\ Stamped(b)
     /\ NanosInSecond(ret[a].arg) /\ NanosInSecond(ret[b].arg)
     /\ InTimeRange(ret[a].arg) /\ InTimeRange(ret[b].arg)
     /\ BeforeByTick(ret[a].arg, ret[b].arg))
    => /\ ret[a].res.tag = "Value"
       /\ ret[b].res.tag = "Value"
       /\ Lt(ret[a].res.val, ret[b].res.val)

\* C2: every stamp that is produced has CURRENT_GENERATION in its top 6
\* bits, zero in its low 16 bits, and no bit set outside TIME_MASK and
\* GENERATION_IN_POSITION.
C2_FieldIsolation ==
  \A c \in Callers :
    (Stamped(c) /\ ret[c].res.tag = "Value")
    => LET v == ret[c].res.val
           fields == BitOr(TIME_MASK, GENERATION_IN_POSITION)
       IN /\ v[4] \div (2 ^ (16 - GENERATION_BITS)) = CURRENT_GENERATION
          /\ v[1] % (2 ^ COUNTER_BITS) = 0
          /\ BitOr(v, fields) = fields

\* the release build stamped (0, 0): the wrapped difference has bits above
\* the time field, which the mask removes
C2_Witness ==
  \E c \in Callers :
    /\ Stamped(c) /\ ret[c].res.tag = "Value" /\ ~overflow_checks
    /\ ret[c].arg = Inst_zero
    /\ TimeField(ret[c].res.val) # Zero64

\* C3: stamp_time returns a value for every input; it never panics.
C3_NoPanic == \A c \in Callers : Stamped(c) => ret[c].res.tag = "Value"

ReferencePacking(secs, nanos) ==
  LET combined == Add(Shl(secs, 10), Sub(Shl(nanos, 10), SEC_IN_NANOS).v).v
  IN BitOr(GENERATION_IN_POSITION,
           BitAnd(Shl(combined, 16), <<0, 65535, 65535, 1023>>))

\* C4: for every input stamp_time returns the reference packing, computed
\* with all arithmetic modulo 2^64.
C4_Reference ==
  \A c \in Callers :
    Stamped(c)
    => ret[c].res = Returned(ReferencePacking(ret[c].arg.secs,
                                              ret[c].arg.nanos))

RealisticInst == Inst_new(FromNat(1700000000), FromNat(500000000))

\* 1_700_000_000 * 1024 + 500_000_000 * 1024 - 1_000_000_000
\*   = 2_251_800_000_000 = 524 * 2^32 + 18877 * 2^16 + 13824
RealisticCombined == <<13824, 18877, 524, 0>>

\* C8: stamping (1_700_000_000, 500_000_000) neither underflows nor
\* overflows, the combined value is below 2^42, and the stamp's time field
\* is nonzero and equal to the combined value.
C8_Realistic ==
  \A c \in Callers :
    (Stamped(c) /\ ret[c].arg = RealisticInst)
    => /\ ret[c].res.tag = "Value"
       /\ Lt(RealisticCombined, Pow2_42)
       /\ TimeField(ret[c].res.val) = RealisticCombined
       /\ TimeField(ret[c].res.val) # Zero64
       /\ ret[c].res.val = Shl(RealisticCombined, COUNTER_BITS)

C8_Witness ==
  \E c \in Callers :
    /\ Stamped(c) /\ ret[c].arg = RealisticInst /\ overflow_checks
    /\ ret[c].res.tag = "Value"

Low32(x) == <<x[1], x[2], 0, 0>>

\* C10: two inputs whose sums secs + nanos agree modulo 2^32 give the same
\* stamp.
C10_SumOnly ==
  \A a, b \in Callers :
    (/\ Stamped(a) /\ Stamped(b)
     /\ Low32(Add(ret[a].arg.secs, ret[a].arg.nanos).v)
        = Low32(Add(ret[b].arg.secs, ret[b].arg.nanos).v))
    => ret[a].res = ret[b].res

(***************************************************************************)
(* Properties of the clock specification.                                  *)
(***************************************************************************)
\* C5: a tick whose read succeeds fails with NegativeTimeSpec carrying the
\* raw reading when a component is negative, and otherwise returns the Inst
\* holding exactly the two components.
C5_NegativeReading ==
  (call.op = "tick" /\ Len(call.seen) >= 1 /\ call.seen[1].tag = "TimeSpec")
  => LET r == call.seen[1]
     IN IF r.tv_sec < 0 \/ r.tv_nsec < 0
        THEN call.res = Err([kind |-> "NegativeTimeSpec", tspec |-> r])
        ELSE call.res = Ok([secs |-> FromNat(r.tv_sec),
                            nanos |-> FromNat(r.tv_nsec)])

C5_Witness ==
  /\ call.op = "tick"
  /\ call.seen = <<TimeSpec(-1, 0)>>
  /\ call.res.tag = "Err"

\* C6: when the clock read fails with errno e, tick, MonotonicClock::try_new
\* and AtomicClock::try_new read the clock exactly once and return
\* Err(NixError(e)).
C6_ReadFailure ==
  call.op \in {"tick", "MonotonicClock::try_new", "AtomicClock::try_new"}
  => /\ Len(call.seen) = 1
     /\ call.seen[1].tag = "Errno"
        => call.res = Err([kind |-> "NixError", errno |-> call.seen[1].errno])

C6_Witness ==
  /\ call.op = "AtomicClock::try_new"
  /\ call.seen = <<OsErr(1)>>
  /\ call.res.tag = "Err"

\* the result of the tick a call made
Ticked == IF call.T = "MonotonicClock"
          THEN MonotonicClock_tick(call.seen).res
          ELSE call.g

\* C7: try_now returns exactly the result of one tick; must_tick, now and the
\* two `new` constructors return the tick's value when it succeeded and
\* panic when it failed.
C7_NoSwallow ==
  /\ call.op \in {"try_now", "must_tick", "now", "MonotonicClock::new",
                  "AtomicClock::new"}
     => (call.T = "MonotonicClock" => Len(call.seen) = 1)
  /\ call.op = "try_now" => call.res = Ticked
  /\ call.op \in {"must_tick", "now"}
     => call.res = (IF Ticked.tag = "Ok" THEN Returned(Ticked.val) ELSE Panic)
  /\ call.op = "MonotonicClock::new"
     => call.res = (IF Ticked.tag = "Ok"
                    THEN Returned([init |-> Ticked.val]) ELSE Panic)
  /\ call.op = "AtomicClock::new"
     => call.res = (IF Ticked.tag = "Ok"
                    THEN Returned([source |-> [init |-> Ticked.val]])
                    ELSE Panic)

C7_Witness ==
  /\ call.op = "now"
  /\ call.T = "Generic"
  /\ call.g.tag = "Err"
  /\ call.res = Panic

====
